---- MODULE Spec2Model ----
(***************************************************************************)
(* Model of cloud/linode/linode_nodebalancer.py: the Ansible module that   *)
(* brings one Linode NodeBalancer to a desired state.  One invocation is   *)
(* main() followed by linodeNodeBalancers(); every remote API call is one  *)
(* step, so that its success and its failure (linode_api.ApiError) are     *)
(* both behaviours of the model.                                           *)
(*   Spec        the task is run repeatedly, library and key in place      *)
(*   SpecConfig  one run, any api_key parameter, any environment           *)
(*   SpecExt     one run, with a second invocation at the same time        *)
(***************************************************************************)
EXTENDS Integers, Sequences, FiniteSets, TLC

VARIABLES
    remote,        \* the account's NodeBalancers, by id (NoRes: no such resource)
    nextId,        \* the id the remote system assigns to the next created resource
    params,        \* module.params of the current invocation
    pc,            \* position of the current invocation
    nodebalancer,  \* local variable nodebalancer of linodeNodeBalancers
    changed,       \* local variable changed of linodeNodeBalancers
    new,           \* local variable new of linodeNodeBalancers (a write's response)
    calls,         \* the remote calls issued by the current invocation, in order
    outputs,       \* what the current invocation emitted (exit_json / fail_json)
    found,         \* outcome of the initial lookup of the current invocation
    apiError,      \* the ApiError raised in the current invocation, if any
    run,           \* number of invocations started (the task is run repeatedly)
    prev,          \* what the previous invocation emitted
    prevCalls,     \* the remote calls the previous invocation issued
    changedRuns,   \* number of earlier runs of the task that reported changed=true
    quietRun,      \* an earlier run of the task reported changed=false
    environ,       \* os.environ['LINODE_API_KEY'] (NoKey: not set)
    HAS_LINODE,    \* the linode-python library could be imported
    api,           \* the key the API client of the current invocation holds
    echo,          \* api.test_echo() of the current invocation
    otherPc,       \* position of a second invocation of the same task
    otherNb,       \* local variable nodebalancer of the second invocation
    otherCalls     \* the remote calls the second invocation issued

\* the process environment and the API client set up by main()
setup == <<environ, HAS_LINODE, api, echo>>

\* what the earlier runs of the task reported
past == <<changedRuns, quietRun>>

\* a second invocation, running at the same time as the current one
other == <<otherPc, otherNb, otherCalls>>

vars == <<remote, nextId, params, pc, nodebalancer, changed, new, calls,
          outputs, found, apiError, run, prev, prevCalls, past, setup, other>>

----------------------------------------------------------------------------
(* Bounds of the model *)

MaxId == 2
MaxRuns == 3

(* Values *)

NoName == "None"
NoId == 0
NoKey == ""
ParamKey == "param-key"
EnvKey == "env-key"
DefaultThrottle == 0
DefaultDatacenter == 7
OtherDatacenter == 2
DefaultPaymentTerm == 1

Names == {"a", "b"}
Ids == 1..MaxId
StateChoices == {"present", "absent"}
PaymentTermChoices == {DefaultPaymentTerm, 12, 24}
PaymentTermArgs == {DefaultPaymentTerm, 12}
DatacenterArgs == {OtherDatacenter, DefaultDatacenter}
ThrottleArgs == {DefaultThrottle, 5}
ApiKeyArgs == {NoKey, ParamKey}
EnvArgs == {NoKey, EnvKey}

NoRes ==
    [NODEBALANCERID |-> NoId, LABEL |-> NoName, CLIENTCONNTHROTTLE |-> 0,
     DATACENTERID |-> 0, PAYMENTTERM |-> 0]

NoParams ==
    [api_key |-> NoKey,
     state |-> "present", name |-> NoName, node_balancer_id |-> NoId,
     datacenter_id |-> DefaultDatacenter, paymentterm |-> DefaultPaymentTerm,
     client_conn_throttle |-> DefaultThrottle]

NoNew == [NodeBalancerID |-> NoId]

NoError == [ERRORCODE |-> 0, ERRORMESSAGE |-> ""]

ApiErrors ==
    { [ERRORCODE |-> 4, ERRORMESSAGE |-> "Authentication failed"],
      [ERRORCODE |-> 5, ERRORMESSAGE |-> "Object not found"] }

----------------------------------------------------------------------------
(* The remote system *)

Matching(rem, name) == { i \in DOMAIN rem : rem[i] # NoRes /\ rem[i].LABEL = name }

MinOf(S) == CHOOSE i \in S : \A j \in S : i <= j

\* linode_find_nodebalancer(api, node_balancer_id, name): by id when an id is
\* given, else the first resource of the listing that carries the name.
linode_find_nodebalancer(rem, node_balancer_id, name) ==
    IF node_balancer_id # NoId
    THEN IF node_balancer_id \in DOMAIN rem THEN rem[node_balancer_id] ELSE NoRes
    ELSE IF Matching(rem, name) = {} THEN NoRes
         ELSE rem[MinOf(Matching(rem, name))]

\* api.nodebalancer_create: a new resource with the next id; the throttle is
\* the baseline unless the call carries one.
nodebalancer_create(rem, id, kw) ==
    [rem EXCEPT ![id] =
        [NODEBALANCERID |-> id,
         LABEL |-> kw.Label,
         CLIENTCONNTHROTTLE |->
            IF "ClientConnThrottle" \in DOMAIN kw
            THEN kw.ClientConnThrottle ELSE DefaultThrottle,
         DATACENTERID |-> kw.DatacenterID,
         PAYMENTTERM |-> kw.PaymentTerm]]

\* api.nodebalancer_update: the fields the call carries are overwritten.
nodebalancer_update(rem, kw) ==
    [rem EXCEPT ![kw.NodeBalancerID] =
        [@ EXCEPT
            !.CLIENTCONNTHROTTLE = kw.ClientConnThrottle,
            !.LABEL = IF "Label" \in DOMAIN kw THEN kw.Label ELSE @,
            !.DATACENTERID =
                IF "DatacenterID" \in DOMAIN kw THEN kw.DatacenterID ELSE @,
            !.PAYMENTTERM =
                IF "PaymentTerm" \in DOMAIN kw THEN kw.PaymentTerm ELSE @]]

\* api.nodebalancer_delete
nodebalancer_delete(rem, kw) == [rem EXCEPT ![kw.NodeBalancerId] = NoRes]

----------------------------------------------------------------------------
(* linodeNodeBalancers and its decorator *)

\* Mutant: the throttle is compared with the wrong field of the resource.
NeedsUpdate_WrongField(nb, name, client_conn_throttle) ==
    nb.LABEL # name \/ nb.DATACENTERID # client_conn_throttle

\* if nodebalancer['LABEL'] != name or
\*    nodebalancer['CLIENTCONNTHROTTLE'] != client_conn_throttle
NeedsUpdate(nb, name, client_conn_throttle) ==
    nb.LABEL # name \/ nb.CLIENTCONNTHROTTLE # client_conn_throttle

\* Mutant: the label is sent whether or not it differs.
UpdateKwargs_AlwaysLabel(nb, name, client_conn_throttle) ==
    [NodeBalancerID |-> nb.NODEBALANCERID,
     ClientConnThrottle |-> client_conn_throttle,
     Label |-> name]

\* keyword arguments of api.nodebalancer_update
UpdateKwargs(nb, name, client_conn_throttle) ==
    IF nb.LABEL # name
    THEN [NodeBalancerID |-> nb.NODEBALANCERID,
          ClientConnThrottle |-> client_conn_throttle,
          Label |-> name]
    ELSE [NodeBalancerID |-> nb.NODEBALANCERID,
          ClientConnThrottle |-> client_conn_throttle]

\* Mutant: the delete is addressed by the wrong field of the resource.
DeleteKwargs_WrongField(nb) == [NodeBalancerId |-> nb.DATACENTERID]

\* keyword arguments of api.nodebalancer_delete
DeleteKwargs(nb) == [NodeBalancerId |-> nb.NODEBALANCERID]

\* Mutant: the throttle is passed to the create call.
CreateKwargs_WithThrottle(datacenter_id, paymentterm, name, client_conn_throttle) ==
    [DatacenterID |-> datacenter_id, PaymentTerm |-> paymentterm, Label |-> name,
     ClientConnThrottle |-> client_conn_throttle]

\* keyword arguments of api.nodebalancer_create (client_conn_throttle is in
\* scope and is not passed)
CreateKwargs(datacenter_id, paymentterm, name, client_conn_throttle) ==
    [DatacenterID |-> datacenter_id, PaymentTerm |-> paymentterm, Label |-> name]

\* Mutant: the id is not handed to the lookup, which then goes by name.
FindArgs_NameOnly(node_balancer_id, name) ==
    [node_balancer_id |-> NoId, name |-> name]

\* positional arguments of linode_find_nodebalancer
FindArgs(node_balancer_id, name) ==
    [node_balancer_id |-> node_balancer_id, name |-> name]

\* Mutant: a missing resource is never created.
AfterLookup_ExitWhenMissing(nb, state, name, client_conn_throttle) ==
    IF nb # NoRes
    THEN IF state = "present"
         THEN IF NeedsUpdate(nb, name, client_conn_throttle)
              THEN "update" ELSE "exit"
         ELSE "delete"
    ELSE "exit"

\* Mutant: a missing resource is created whatever the desired state.
AfterLookup_CreateWhenMissing(nb, state, name, client_conn_throttle) ==
    IF nb # NoRes
    THEN IF state = "present"
         THEN IF NeedsUpdate(nb, name, client_conn_throttle)
              THEN "update" ELSE "exit"
         ELSE "delete"
    ELSE "create"

\* Mutant: the resource is fetched again when nothing had to be updated.
AfterLookup_RefetchOnNoop(nb, state, name, client_conn_throttle) ==
    IF nb # NoRes
    THEN IF state = "present"
         THEN IF NeedsUpdate(nb, name, client_conn_throttle)
              THEN "update" ELSE "refetch_update"
         ELSE "delete"
    ELSE IF state = "present" THEN "create" ELSE "exit"

\* the branch taken after the lookup: the next remote call, or the exit
AfterLookup(nb, state, name, client_conn_throttle) ==
    IF nb # NoRes
    THEN IF state = "present"
         THEN IF NeedsUpdate(nb, name, client_conn_throttle)
              THEN "update" ELSE "exit"
         ELSE "delete"
    ELSE IF state = "present" THEN "create" ELSE "exit"

\* Mutant: the resource is not fetched again after an update.
AfterWrite_UpdateNoRefetch(op) ==
    CASE op = "update" -> "exit"
      [] op = "create" -> "refetch_create"
      [] op = "delete" -> "exit"

\* Mutant: the resource is fetched again after it was deleted.
AfterWrite_DeleteRefetch(op) ==
    CASE op = "update" -> "refetch_update"
      [] op = "create" -> "refetch_create"
      [] op = "delete" -> "refetch_update"

\* where control goes after a write call returned
AfterWrite(op) ==
    CASE op = "update" -> "refetch_update"
      [] op = "create" -> "refetch_create"
      [] op = "delete" -> "exit"

\* Mutant: the message leaves the error code out.
FailMsg_DropCode(e) == <<"FATAL: ", e.ERRORMESSAGE>>

\* msg = "FATAL: Code [{code}] - {err}"
FailMsg(e) == <<"FATAL: Code [", e.ERRORCODE, "] - ", e.ERRORMESSAGE>>

\* module.fail_json(msg=msg)
FailJson(msg) == [kind |-> "fail_json", kw |-> [msg |-> msg]]

\* Mutant: changed is reported False whatever was done.
ExitJsonOutput_NeverChanged(chg, nb) ==
    [kind |-> "exit_json",
     kw |-> [changed |-> FALSE, instance |-> nb, instances |-> <<nb>>]]

\* Mutant: changed is reported True whatever was done.
ExitJsonOutput_AlwaysChanged(chg, nb) ==
    [kind |-> "exit_json",
     kw |-> [changed |-> TRUE, instance |-> nb, instances |-> <<nb>>]]

\* module.exit_json(changed=changed, instance=nodebalancer, instances=[nodebalancer])
ExitJsonOutput(chg, nb) ==
    [kind |-> "exit_json",
     kw |-> [changed |-> chg, instance |-> nb, instances |-> <<nb>>]]

\* Mutant: the environment variable is looked at before the parameter.
ResolveKey_EnvFirst(api_key, env) == IF env # NoKey THEN env ELSE api_key

\* if not api_key: api_key = os.environ['LINODE_API_KEY']
\* (NoKey: the KeyError of a variable that is not set)
ResolveKey(api_key, env) == IF api_key # NoKey THEN api_key ELSE env

\* LINODE_IMPORT_ERROR + " (pip install linode-python)"
ImportErrorMsg == <<"No module named linode", " (pip install linode-python)">>

\* 'Unable to load %s' % e.message
KeyErrorMsg == <<"Unable to load ", "LINODE_API_KEY">>

\* the failure of AnsibleModule's required_one_of check
RequiredOneOfMsg == <<"one of the following is required">>

\* '%s' % e.value[0]['ERRORMESSAGE']
EchoFailMsg(e) == <<e.ERRORMESSAGE>>

Call(op, kw, ok) == [op |-> op, kw |-> kw, ok |-> ok]

\* Mutant: the decorator swallows the error and the function goes on to its
\* exit_json.
HandleApiError_Continue(op, kw, e) ==
    /\ calls' = Append(calls, [op |-> op, kw |-> kw, ok |-> FALSE])
    /\ apiError' = e
    /\ pc' = "exit"
    /\ UNCHANGED <<remote, nextId, params, nodebalancer, changed, new, found,
                   outputs, run, prev, prevCalls, past, setup,
                   other>>

\* handle_api_error: an ApiError raised by a call ends the invocation in
\* fail_json; the call that raised it is the last one issued.
HandleApiError(op, kw, e) ==
    /\ calls' = Append(calls, Call(op, kw, FALSE))
    /\ apiError' = e
    /\ outputs' = Append(outputs, FailJson(FailMsg(e)))
    /\ pc' = "done"
    /\ UNCHANGED <<remote, nextId, params, nodebalancer, changed, new, found,
                   run, prev, prevCalls, past, setup,
                   other>>

----------------------------------------------------------------------------
\* the account and an invocation not yet started
InitState ==
    /\ nextId \in 1..(MaxId + 1)
    /\ remote \in [Ids -> {NoRes} \cup
                    [NODEBALANCERID : Ids, LABEL : Names,
                     CLIENTCONNTHROTTLE : ThrottleArgs,
                     DATACENTERID : {DefaultDatacenter},
                     PAYMENTTERM : {DefaultPaymentTerm}]]
    /\ \A i \in Ids : /\ remote[i] # NoRes => remote[i].NODEBALANCERID = i
                      /\ i >= nextId => remote[i] = NoRes
    /\ params = NoParams
    /\ pc = "idle"
    /\ nodebalancer = NoRes
    /\ changed = FALSE
    /\ new = NoNew
    /\ calls = <<>>
    /\ outputs = <<>>
    /\ found = NoRes
    /\ apiError = NoError
    /\ run = 0
    /\ prev = <<>>
    /\ prevCalls = <<>>
    /\ changedRuns = 0
    /\ quietRun = FALSE
    /\ api = NoKey
    /\ echo = "none"
    /\ otherPc = "idle"
    /\ otherNb = NoRes
    /\ otherCalls = <<>>

\* the task is run where the library is installed, with its api_key parameter
Init ==
    /\ InitState
    /\ environ = NoKey
    /\ HAS_LINODE = TRUE

\* any installation and any environment
InitConfig ==
    /\ InitState
    /\ environ \in EnvArgs
    /\ HAS_LINODE \in BOOLEAN

\* main() up to the construction of the API client: AnsibleModule checks
\* required_one_of, then the library and the key are checked; each failed
\* check ends the invocation in fail_json.  The first run takes any
\* parameters; a run that ended in exit_json is followed by a run of the
\* same task, with the same parameters.
Main(api_key, state, name, node_balancer_id, datacenter_id, paymentterm, thr) ==
    LET p == [api_key |-> api_key, state |-> state, name |-> name,
              node_balancer_id |-> node_balancer_id,
              datacenter_id |-> datacenter_id, paymentterm |-> paymentterm,
              client_conn_throttle |-> thr]
        key == ResolveKey(api_key, environ)
    IN  /\ pc \in {"idle", "done"}
        /\ run < MaxRuns
        /\ run > 0 => /\ p = params
                      /\ Len(outputs) = 1
                      /\ outputs[1].kind = "exit_json"
        /\ run' = run + 1
        /\ prev' = outputs
        /\ prevCalls' = calls
        /\ changedRuns' =
              IF run > 0 /\ outputs[1].kw.changed
              THEN changedRuns + 1 ELSE changedRuns
        /\ quietRun' = (quietRun \/ (run > 0 /\ ~outputs[1].kw.changed))
        /\ params' = p
        /\ calls' = <<>>
        /\ changed' = FALSE
        /\ nodebalancer' = NoRes
        /\ new' = NoNew
        /\ found' = NoRes
        /\ apiError' = NoError
        /\ echo' = "none"
        /\ IF name = NoName /\ node_balancer_id = NoId
           THEN /\ outputs' = <<FailJson(RequiredOneOfMsg)>>
                /\ api' = NoKey
                /\ pc' = "done"
           ELSE IF ~HAS_LINODE
           THEN /\ outputs' = <<FailJson(ImportErrorMsg)>>
                /\ api' = NoKey
                /\ pc' = "done"
           ELSE IF key = NoKey
           THEN /\ outputs' = <<FailJson(KeyErrorMsg)>>
                /\ api' = NoKey
                /\ pc' = "done"
           ELSE /\ outputs' = <<>>
                /\ api' = key
                /\ pc' = "echo"
        /\ UNCHANGED <<remote, nextId, environ, HAS_LINODE, other>>

\* api.test_echo(): the first remote call, with the client just constructed;
\* then linodeNodeBalancers starts with changed = False
TestEcho ==
    /\ pc = "echo"
    /\ \/ /\ echo' = "ok"
          /\ pc' = "find"
          /\ UNCHANGED <<outputs, apiError>>
       \/ \E e \in ApiErrors :
            /\ echo' = "failed"
            /\ apiError' = e
            /\ outputs' = Append(outputs, FailJson(EchoFailMsg(e)))
            /\ pc' = "done"
    /\ UNCHANGED <<remote, nextId, params, nodebalancer, changed, new, calls,
                   found, run, prev, prevCalls, past, environ, HAS_LINODE,
                   api, other>>

\* nodebalancer = linode_find_nodebalancer(api, node_balancer_id, name)
Lookup ==
    /\ pc = "find"
    /\ LET args == FindArgs(params.node_balancer_id, params.name)
           nb == linode_find_nodebalancer(remote, args.node_balancer_id, args.name)
       IN  \/ /\ calls' = Append(calls, Call("find", args, TRUE))
              /\ nodebalancer' = nb
              /\ found' = nb
              /\ pc' = AfterLookup(nb, params.state, params.name,
                                   params.client_conn_throttle)
              /\ UNCHANGED <<remote, nextId, params, changed, new, outputs,
                             apiError, run, prev, prevCalls, past, setup,
                   other>>
           \/ \E e \in ApiErrors : HandleApiError("find", args, e)

\* new = api.nodebalancer_update(...); changed = True
Update ==
    /\ pc = "update"
    /\ LET kw == UpdateKwargs(nodebalancer, params.name,
                              params.client_conn_throttle)
       IN  \/ /\ kw.NodeBalancerID \in DOMAIN remote
              /\ remote[kw.NodeBalancerID] # NoRes
              /\ remote' = nodebalancer_update(remote, kw)
              /\ calls' = Append(calls, Call("update", kw, TRUE))
              /\ new' = [NodeBalancerID |-> kw.NodeBalancerID]
              /\ changed' = TRUE
              /\ pc' = AfterWrite("update")
              /\ UNCHANGED <<nextId, params, nodebalancer, outputs, found,
                             apiError, run, prev, prevCalls, past, setup,
                   other>>
           \/ \E e \in ApiErrors : HandleApiError("update", kw, e)

\* api.nodebalancer_delete(...); nodebalancer = None; changed = True
Delete ==
    /\ pc = "delete"
    /\ LET kw == DeleteKwargs(nodebalancer)
       IN  \/ /\ kw.NodeBalancerId \in DOMAIN remote
              /\ remote[kw.NodeBalancerId] # NoRes
              /\ remote' = nodebalancer_delete(remote, kw)
              /\ calls' = Append(calls, Call("delete", kw, TRUE))
              /\ nodebalancer' = NoRes
              /\ changed' = TRUE
              /\ pc' = AfterWrite("delete")
              /\ UNCHANGED <<nextId, params, new, outputs, found, apiError,
                             run, prev, prevCalls, past, setup,
                   other>>
           \/ \E e \in ApiErrors : HandleApiError("delete", kw, e)

\* new = api.nodebalancer_create(...)
Create ==
    /\ pc = "create"
    /\ LET kw == CreateKwargs(params.datacenter_id, params.paymentterm,
                              params.name, params.client_conn_throttle)
       IN  \/ /\ nextId <= MaxId
              /\ remote' = nodebalancer_create(remote, nextId, kw)
              /\ nextId' = nextId + 1
              /\ calls' = Append(calls, Call("create", kw, TRUE))
              /\ new' = [NodeBalancerID |-> nextId]
              /\ pc' = AfterWrite("create")
              /\ UNCHANGED <<params, nodebalancer, changed, outputs, found,
                             apiError, run, prev, prevCalls, past, setup,
                   other>>
           \/ \E e \in ApiErrors : HandleApiError("create", kw, e)

\* nodebalancer = linode_find_nodebalancer(api, new['NodeBalancerID'], name)
\* (followed by changed = True on the create path)
Refetch ==
    /\ pc \in {"refetch_update", "refetch_create"}
    /\ LET args == FindArgs(new.NodeBalancerID, params.name)
       IN  \/ /\ calls' = Append(calls, Call("find", args, TRUE))
              /\ nodebalancer' =
                    linode_find_nodebalancer(remote, args.node_balancer_id,
                                             args.name)
              /\ changed' = IF pc = "refetch_create" THEN TRUE ELSE changed
              /\ pc' = "exit"
              /\ UNCHANGED <<remote, nextId, params, new, outputs, found,
                             apiError, run, prev, prevCalls, past, setup,
                   other>>
           \/ \E e \in ApiErrors : HandleApiError("find", args, e)

\* module.exit_json(changed=changed, instance=nodebalancer, instances=[nodebalancer])
ExitJson ==
    /\ pc = "exit"
    /\ outputs' = Append(outputs, ExitJsonOutput(changed, nodebalancer))
    /\ pc' = "done"
    /\ UNCHANGED <<remote, nextId, params, nodebalancer, changed, new, calls,
                   found, apiError, run, prev, prevCalls, past, setup,
                   other>>

Next ==
    \/ \E state \in StateChoices, name \in Names \cup {NoName},
          node_balancer_id \in Ids \cup {NoId},
          datacenter_id \in DatacenterArgs,
          paymentterm \in PaymentTermArgs, thr \in ThrottleArgs :
            Main(ParamKey, state, name, node_balancer_id, datacenter_id,
                 paymentterm, thr)
    \/ TestEcho
    \/ Lookup
    \/ Update
    \/ Delete
    \/ Create
    \/ Refetch
    \/ ExitJson

Spec == Init /\ [][Next]_vars

\* one invocation, with any api_key parameter, in any environment
NextConfig ==
    \/ \E api_key \in ApiKeyArgs, state \in StateChoices,
          name \in Names \cup {NoName}, node_balancer_id \in Ids \cup {NoId},
          datacenter_id \in DatacenterArgs,
          paymentterm \in PaymentTermArgs, thr \in ThrottleArgs :
            /\ run = 0
            /\ Main(api_key, state, name, node_balancer_id, datacenter_id,
                    paymentterm, thr)
    \/ TestEcho
    \/ Lookup
    \/ Update
    \/ Delete
    \/ Create
    \/ Refetch
    \/ ExitJson

SpecConfig == InitConfig /\ [][NextConfig]_vars

----------------------------------------------------------------------------
(* A second invocation of the same task, with the same parameters, running *)
(* at the same time: the same linodeNodeBalancers, reduced to its calls on *)
(* the account (its re-fetch and its exit_json change nothing there).      *)

mine == <<params, pc, nodebalancer, changed, new, calls, outputs, found,
          apiError, run, prev, prevCalls, past, setup>>

\* the second invocation starts while the current one runs
OtherMain ==
    /\ otherPc = "idle"
    /\ pc \notin {"idle", "done"}
    /\ otherPc' = "find"
    /\ UNCHANGED <<remote, nextId, otherNb, otherCalls, mine>>

\* nodebalancer = linode_find_nodebalancer(api, node_balancer_id, name)
OtherLookup ==
    /\ otherPc = "find"
    /\ LET args == FindArgs(params.node_balancer_id, params.name)
           nb == linode_find_nodebalancer(remote, args.node_balancer_id, args.name)
           to == AfterLookup(nb, params.state, params.name,
                             params.client_conn_throttle)
       IN  \/ /\ otherCalls' = Append(otherCalls, Call("find", args, TRUE))
              /\ otherNb' = nb
              /\ otherPc' = IF to = "exit" THEN "done" ELSE to
           \/ /\ otherCalls' = Append(otherCalls, Call("find", args, FALSE))
              /\ otherPc' = "done"
              /\ UNCHANGED otherNb
    /\ UNCHANGED <<remote, nextId, mine>>

\* api.nodebalancer_update(...)
OtherUpdate ==
    /\ otherPc = "update"
    /\ LET kw == UpdateKwargs(otherNb, params.name, params.client_conn_throttle)
       IN  \/ /\ kw.NodeBalancerID \in DOMAIN remote
              /\ remote[kw.NodeBalancerID] # NoRes
              /\ remote' = nodebalancer_update(remote, kw)
              /\ otherCalls' = Append(otherCalls, Call("update", kw, TRUE))
           \/ /\ otherCalls' = Append(otherCalls, Call("update", kw, FALSE))
              /\ UNCHANGED remote
    /\ otherPc' = "done"
    /\ UNCHANGED <<nextId, otherNb, mine>>

\* api.nodebalancer_delete(...)
OtherDelete ==
    /\ otherPc = "delete"
    /\ LET kw == DeleteKwargs(otherNb)
       IN  \/ /\ kw.NodeBalancerId \in DOMAIN remote
              /\ remote[kw.NodeBalancerId] # NoRes
              /\ remote' = nodebalancer_delete(remote, kw)
              /\ otherCalls' = Append(otherCalls, Call("delete", kw, TRUE))
           \/ /\ otherCalls' = Append(otherCalls, Call("delete", kw, FALSE))
              /\ UNCHANGED remote
    /\ otherPc' = "done"
    /\ UNCHANGED <<nextId, otherNb, mine>>

\* api.nodebalancer_create(...)
OtherCreate ==
    /\ otherPc = "create"
    /\ LET kw == CreateKwargs(params.datacenter_id, params.paymentterm,
                              params.name, params.client_conn_throttle)
       IN  \/ /\ nextId <= MaxId
              /\ remote' = nodebalancer_create(remote, nextId, kw)
              /\ nextId' = nextId + 1
              /\ otherCalls' = Append(otherCalls, Call("create", kw, TRUE))
           \/ /\ otherCalls' = Append(otherCalls, Call("create", kw, FALSE))
              /\ UNCHANGED <<remote, nextId>>
    /\ otherPc' = "done"
    /\ UNCHANGED <<otherNb, mine>>

\* one run of the task and a second invocation at the same time
NextExt ==
    \/ \E state \in StateChoices, name \in Names \cup {NoName},
          node_balancer_id \in Ids \cup {NoId},
          datacenter_id \in DatacenterArgs,
          paymentterm \in PaymentTermArgs, thr \in ThrottleArgs :
            /\ run = 0
            /\ Main(ParamKey, state, name, node_balancer_id, datacenter_id,
                    paymentterm, thr)
    \/ TestEcho
    \/ Lookup
    \/ Update
    \/ Delete
    \/ Create
    \/ Refetch
    \/ ExitJson
    \/ OtherMain
    \/ OtherLookup
    \/ OtherUpdate
    \/ OtherDelete
    \/ OtherCreate

SpecExt == Init /\ [][NextExt]_vars

----------------------------------------------------------------------------
(* Vocabulary of the properties *)

IsWrite(c) == c.op \in {"create", "update", "delete"}

\* the write calls issued so far by the current invocation
Writes == SelectSeq(calls, IsWrite)

\* the initial lookup of the current invocation returned
LookedUp == Len(calls) >= 1 /\ calls[1].op = "find" /\ calls[1].ok

\* the current invocation ended in exit_json
Succeeded == pc = "done" /\ Len(outputs) = 1 /\ outputs[1].kind = "exit_json"

\* the current invocation emitted exactly exit_json(changed=chg, instance=nb,
\* instances=[nb])
Reported(chg, nb) ==
    /\ Len(outputs) = 1
    /\ outputs[1].kind = "exit_json"
    /\ outputs[1].kw.changed = chg
    /\ outputs[1].kw.instance = nb
    /\ outputs[1].kw.instances = <<nb>>

\* the previous invocation ended in exit_json
PrevSucceeded == Len(prev) = 1 /\ prev[1].kind = "exit_json"

\* the current invocation targets the resource by name alone
ByName == params.name # NoName /\ params.node_balancer_id = NoId

----------------------------------------------------------------------------
\* C1: Idempotence, in the case the statement names: state=present with a
\* non-zero client_conn_throttle and a name that no resource carries yet.  The
\* first run creates the resource; the second run, with the same parameters,
\* reports changed=false and returns the same resource as the first.
C1_SecondRunUnchanged ==
    ( /\ run >= 2
      /\ Succeeded
      /\ PrevSucceeded
      /\ ByName
      /\ params.state = "present"
      /\ params.client_conn_throttle # DefaultThrottle
      /\ Len(prevCalls) = 3
      /\ prevCalls[2].op = "create" )
    => /\ prev[1].kw.changed = TRUE
       /\ outputs[1].kw.changed = FALSE
       /\ outputs[1].kw.instance = prev[1].kw.instance

----------------------------------------------------------------------------
\* C2: when the lookup finds a resource whose LABEL is the desired name and
\* whose CLIENTCONNTHROTTLE is the desired throttle, a state=present run issues
\* the lookup and nothing else (no write, no re-fetch), leaves the resource as
\* it is, and ends in exit_json with changed=false and the looked-up resource.
C2_NoOpWhenEqual ==
    ( /\ LookedUp
      /\ params.state = "present"
      /\ found # NoRes
      /\ found.LABEL = params.name
      /\ found.CLIENTCONNTHROTTLE = params.client_conn_throttle )
    => /\ Len(calls) = 1
       /\ pc \in {"exit", "done"}
       /\ remote[found.NODEBALANCERID] = found
       /\ pc = "done" => Reported(FALSE, found)

C2_Witness ==
    /\ Succeeded
    /\ LookedUp
    /\ params.state = "present"
    /\ found # NoRes
    /\ found.LABEL = params.name
    /\ found.CLIENTCONNTHROTTLE = params.client_conn_throttle
    /\ found.CLIENTCONNTHROTTLE # DefaultThrottle

----------------------------------------------------------------------------
----------------------------------------------------------------------------
----------------------------------------------------------------------------
\* C5: when the lookup of a state=absent run finds a resource, the only call
\* issued after the lookup is one delete call with that resource's id: nothing
\* is created or updated and nothing is called after the delete; a run that
\* ends in exit_json reports changed=true and no resource.
C5_DeleteWhenPresent ==
    ( /\ LookedUp
      /\ params.state = "absent"
      /\ found # NoRes )
    => /\ pc \in {"delete", "exit", "done"}
       /\ pc = "delete" => Len(calls) = 1
       /\ pc # "delete" =>
            /\ Len(calls) = 2
            /\ calls[2].op = "delete"
            /\ calls[2].kw = [NodeBalancerId |-> found.NODEBALANCERID]
       /\ Succeeded =>
            /\ Reported(TRUE, NoRes)
            /\ remote[found.NODEBALANCERID] = NoRes

C5_Witness ==
    /\ Succeeded
    /\ LookedUp
    /\ params.state = "absent"
    /\ found # NoRes
    /\ Len(calls) = 2
    /\ calls[2].ok

----------------------------------------------------------------------------
\* the previous invocation deleted a resource
PrevDeleted ==
    /\ run >= 2
    /\ PrevSucceeded
    /\ Len(prevCalls) = 2
    /\ prevCalls[2].op = "delete"
    /\ prevCalls[2].ok

\* C6 as stated: after a run that deleted the resource, the second identical
\* run, which finds the resource absent, performs no remote call at all (not
\* even the lookup) and reports changed=false.
C6_SecondRunNoRemoteCall ==
    ( /\ PrevDeleted
      /\ Succeeded
      /\ found = NoRes )
    => /\ Len(calls) = 0
       /\ outputs[1].kw.changed = FALSE

\* C6 as amended: after a run that deleted the resource, the second identical
\* run (state=absent) whose lookup finds no resource issues, after the
\* test_echo of main(), exactly one remote call, the lookup, and no write
\* call, and reports changed=false and no resource.
C6_SecondRunOnlyLookup ==
    ( /\ PrevDeleted
      /\ LookedUp
      /\ found = NoRes )
    => /\ params.state = "absent"
       /\ echo = "ok"
       /\ Len(calls) = 1
       /\ Len(Writes) = 0
       /\ pc \in {"exit", "done"}
       /\ pc = "done" => Reported(FALSE, NoRes)

C6_Witness ==
    /\ PrevDeleted
    /\ LookedUp
    /\ found = NoRes
    /\ Succeeded

----------------------------------------------------------------------------
\* C7: when the lookup of a state=absent run finds nothing, no write call is
\* issued and the run ends in exit_json with changed=false and no resource.
C7_NoOpWhenAbsent ==
    ( /\ LookedUp
      /\ params.state = "absent"
      /\ found = NoRes )
    => /\ Len(Writes) = 0
       /\ Len(calls) = 1
       /\ pc \in {"exit", "done"}
       /\ pc = "done" => Reported(FALSE, NoRes)

C7_Witness ==
    /\ Succeeded
    /\ LookedUp
    /\ params.state = "absent"
    /\ found = NoRes
    /\ run = 1
    /\ \E i \in Ids : remote[i] # NoRes

----------------------------------------------------------------------------
\* C8: when the initial lookup raises an ApiError, the lookup is the only
\* remote call of linodeNodeBalancers (no write is issued), exit_json is not
\* emitted, and the invocation has ended in one fail_json whose message
\* carries the code and the message of the error raised.
C8_LookupFailureStops ==
    ( /\ Len(calls) >= 1
      /\ ~calls[1].ok )
    => /\ Len(calls) = 1
       /\ Len(Writes) = 0
       /\ pc = "done"
       /\ apiError \in ApiErrors
       /\ Len(outputs) = 1
       /\ outputs[1].kind = "fail_json"
       /\ Len(outputs[1].kw.msg) = 4
       /\ outputs[1].kw.msg[2] = apiError.ERRORCODE
       /\ outputs[1].kw.msg[4] = apiError.ERRORMESSAGE

C8_Witness ==
    /\ Len(calls) = 1
    /\ ~calls[1].ok
    /\ pc = "done"
    /\ params.state = "present"
    /\ \E i \in Ids : remote[i] # NoRes /\ remote[i].LABEL = params.name

----------------------------------------------------------------------------
\* C9: an invocation emits nothing while it runs and exactly one outcome,
\* exit_json or fail_json, when it has ended; a remote call that failed is the
\* last call of its invocation, and the outcome is then a fail_json that
\* carries a message only (no changed flag, no instance), also when a write
\* of the same invocation had succeeded; exit_json is emitted only when no
\* call failed.
C9_SingleOutcome ==
    /\ Len(outputs) <= 1
    /\ (pc = "done") <=> (Len(outputs) = 1)
    /\ \A i \in 1..Len(calls) :
          ~calls[i].ok =>
             /\ i = Len(calls)
             /\ pc = "done"
             /\ outputs[1].kind = "fail_json"
             /\ DOMAIN outputs[1].kw = {"msg"}
    /\ Len(outputs) = 1 =>
          \/ /\ outputs[1].kind = "exit_json"
             /\ \A i \in 1..Len(calls) : calls[i].ok
          \/ /\ outputs[1].kind = "fail_json"
             /\ DOMAIN outputs[1].kw = {"msg"}

C9_Witness ==
    /\ pc = "done"
    /\ Len(calls) = 3
    /\ calls[2].op \in {"create", "update"}
    /\ calls[2].ok
    /\ ~calls[3].ok
    /\ outputs[1].kind = "fail_json"

----------------------------------------------------------------------------
\* C10: the remote calls of one invocation are, in this order, the lookup, at
\* most one write (create, update or delete) and at most one re-fetch; a
\* re-fetch follows only a create or an update that succeeded; so there are
\* at most 3 remote calls and at most one write.
C10_CallOrder ==
    /\ Len(calls) <= 3
    /\ Len(Writes) <= 1
    /\ Len(calls) >= 1 => calls[1].op = "find"
    /\ Len(calls) >= 2 => IsWrite(calls[2]) /\ calls[1].ok
    /\ Len(calls) = 3 =>
          /\ calls[3].op = "find"
          /\ calls[2].op \in {"create", "update"}
          /\ calls[2].ok

C10_Witness ==
    /\ Succeeded
    /\ Len(calls) = 3
    /\ calls[2].op = "update"
    /\ calls[3].ok

----------------------------------------------------------------------------
\* C11: when node_balancer_id and name are both supplied, the lookup goes by
\* the id: what it finds is the resource with that id (or nothing), also when
\* another resource carries the name; with state=present a resource found by
\* id whose label differs from name gets an update call carrying Label=name,
\* and a run that ends in exit_json leaves and reports it with that label.
C11_IdTakesPrecedence ==
    ( /\ LookedUp
      /\ params.node_balancer_id # NoId
      /\ params.name # NoName )
    => /\ calls[1].kw.node_balancer_id = params.node_balancer_id
       /\ found # NoRes => found.NODEBALANCERID = params.node_balancer_id
       /\ Len(calls) = 1 =>
            found = IF params.node_balancer_id \in DOMAIN remote
                    THEN remote[params.node_balancer_id] ELSE NoRes
       /\ ( /\ params.state = "present"
            /\ found # NoRes
            /\ found.LABEL # params.name )
          => /\ Len(calls) >= 2 =>
                  /\ calls[2].op = "update"
                  /\ calls[2].kw.NodeBalancerID = params.node_balancer_id
                  /\ "Label" \in DOMAIN calls[2].kw
                  /\ calls[2].kw.Label = params.name
             /\ Succeeded =>
                  /\ outputs[1].kw.instance.NODEBALANCERID =
                        params.node_balancer_id
                  /\ outputs[1].kw.instance.LABEL = params.name
                  /\ remote[params.node_balancer_id].LABEL = params.name

C11_Witness ==
    /\ Succeeded
    /\ LookedUp
    /\ params.state = "present"
    /\ params.node_balancer_id # NoId
    /\ params.name # NoName
    /\ found # NoRes
    /\ found.LABEL # params.name
    /\ \E j \in Ids : /\ j < params.node_balancer_id
                      /\ remote[j] # NoRes
                      /\ remote[j].LABEL = params.name
    /\ remote[params.node_balancer_id].LABEL = params.name

----------------------------------------------------------------------------
\* C13: an invocation that ends in exit_json after a create or an update has
\* issued exactly one further call, a lookup by the id the write returned, and
\* reports what that lookup returns (the resource as the remote system holds
\* it, not the write's response); an invocation that wrote nothing or deleted
\* issues no lookup besides the initial one.
C13_RefetchAfterWrite ==
    /\ ( /\ pc \in {"exit", "done"}
         /\ Len(calls) >= 2
         /\ calls[2].op \in {"create", "update"}
         /\ calls[2].ok )
       => /\ Len(calls) = 3
          /\ calls[3].op = "find"
          /\ calls[3].kw.node_balancer_id = new.NodeBalancerID
          /\ calls[2].op = "update" =>
                new.NodeBalancerID = calls[2].kw.NodeBalancerID
          /\ calls[2].op = "create" => new.NodeBalancerID = nextId - 1
          /\ Succeeded =>
                /\ outputs[1].kw.instance = remote[new.NodeBalancerID]
                /\ outputs[1].kw.instance # NoRes
                /\ outputs[1].kw.instance # new
    /\ ( /\ pc \in {"exit", "done"}
         /\ LookedUp
         /\ (Len(calls) = 1 \/ calls[2].op = "delete") )
       => \A i \in 2..Len(calls) : calls[i].op # "find"

C13_Witness ==
    /\ Succeeded
    /\ Len(calls) = 3
    /\ calls[2].op = "update"
    /\ calls[2].ok
    /\ "Label" \in DOMAIN calls[2].kw
    /\ outputs[1].kw.instance # found

----------------------------------------------------------------------------
\* C14: with nobody else changing the account, an invocation that ends in
\* exit_json reports a resource when state=present and none when state=absent.
C14_PresenceMatchesState ==
    Succeeded =>
        /\ params.state = "present" => outputs[1].kw.instance # NoRes
        /\ params.state = "absent" => outputs[1].kw.instance = NoRes

C14_Witness ==
    /\ Succeeded
    /\ params.state = "present"
    /\ found = NoRes
    /\ outputs[1].kw.instance # NoRes

----------------------------------------------------------------------------
\* C16: an invocation that ends in exit_json reports changed=true exactly
\* when it issued one write call (create, update or delete) and
\* changed=false exactly when it issued none.
C16_ChangedIffOneWrite ==
    Succeeded =>
        /\ Len(Writes) \in {0, 1}
        /\ outputs[1].kw.changed = TRUE <=> Len(Writes) = 1
        /\ outputs[1].kw.changed = FALSE <=> Len(Writes) = 0

C16_Witness ==
    /\ Succeeded
    /\ Len(Writes) = 1
    /\ calls[2].op = "delete"
    /\ outputs[1].kw.changed = TRUE

----------------------------------------------------------------------------
\* C18: a state=present run that targets the resource by node_balancer_id
\* alone (no name) and finds it with the desired throttle issues no write
\* call, leaves its label as it is and reports changed=false.
C18_IdOnlyUntouched ==
    ( /\ pc = "done"
      /\ LookedUp
      /\ params.state = "present"
      /\ params.name = NoName
      /\ params.node_balancer_id # NoId
      /\ found # NoRes
      /\ found.CLIENTCONNTHROTTLE = params.client_conn_throttle )
    => /\ Len(Writes) = 0
       /\ Reported(FALSE, found)
       /\ remote[found.NODEBALANCERID].LABEL = found.LABEL

----------------------------------------------------------------------------
\* the parameters and the environment of the current invocation lack the
\* target (neither name nor node_balancer_id) or the API key (neither
\* api_key nor LINODE_API_KEY)
ConfigError ==
    \/ params.name = NoName /\ params.node_balancer_id = NoId
    \/ params.api_key = NoKey /\ environ = NoKey

\* C12: an invocation with a configuration error has ended in fail_json
\* without constructing the API client and without any remote call (no
\* test_echo, no lookup, no write), so the account is as it was; a client
\* that is constructed holds the api_key parameter when one is given and the
\* LINODE_API_KEY of the environment otherwise.
C12_ConfigErrorBeforeRemote ==
    run > 0 =>
        /\ ConfigError =>
              /\ pc = "done"
              /\ Len(outputs) = 1
              /\ outputs[1].kind = "fail_json"
              /\ api = NoKey
              /\ echo = "none"
              /\ calls = <<>>
        /\ api # NoKey =>
              api = IF params.api_key # NoKey THEN params.api_key ELSE environ
        /\ (echo # "none" \/ calls # <<>>) => api # NoKey

C12_Witness ==
    /\ run > 0
    /\ pc = "done"
    /\ HAS_LINODE
    /\ params.name # NoName
    /\ params.state = "absent"
    /\ params.api_key = NoKey
    /\ environ = NoKey
    /\ \E i \in Ids : remote[i] # NoRes /\ remote[i].LABEL = params.name

----------------------------------------------------------------------------
\* C17: when the task has a name and state=present and is run again and
\* again with nobody else changing the account, at most two runs report
\* changed=true (a create, then a throttle update) before a run reports
\* changed=false, and once a run has reported changed=false every later run
\* reports changed=false and issues no write call.
C17_ConvergesInTwoRuns ==
    ( /\ Succeeded
      /\ params.name # NoName
      /\ params.state = "present" )
    => /\ changedRuns >= 2 => outputs[1].kw.changed = FALSE
       /\ quietRun => outputs[1].kw.changed = FALSE /\ Len(Writes) = 0

----------------------------------------------------------------------------
\* C15: nothing is checked between the lookup and the write: the call that
\* follows the lookup is the write decided from what the lookup returned
\* (create when it returned nothing, else update or delete of the resource
\* it returned, with the arguments computed from it), also when a second
\* invocation has changed the account in between; no other remote call
\* comes between the two.
C15_StaleWriteIssued ==
    ( /\ LookedUp
      /\ Len(calls) >= 2 )
    => /\ IsWrite(calls[2])
       /\ ( /\ found = NoRes
            /\ params.state = "present" )
          => /\ calls[2].op = "create"
             /\ calls[2].kw = [DatacenterID |-> params.datacenter_id,
                               PaymentTerm |-> params.paymentterm,
                               Label |-> params.name]
       /\ ( /\ found # NoRes
            /\ params.state = "present" )
          => /\ calls[2].op = "update"
             /\ calls[2].kw.NodeBalancerID = found.NODEBALANCERID
             /\ calls[2].kw.ClientConnThrottle = params.client_conn_throttle
             /\ ("Label" \in DOMAIN calls[2].kw) <=> (found.LABEL # params.name)
       /\ params.state = "absent"
          => /\ found # NoRes
             /\ calls[2].op = "delete"
             /\ calls[2].kw = [NodeBalancerId |-> found.NODEBALANCERID]

\* both invocations saw no resource of the name and both created one
C15_Witness ==
    /\ ByName
    /\ params.state = "present"
    /\ LookedUp
    /\ found = NoRes
    /\ Len(calls) >= 2
    /\ calls[2].op = "create"
    /\ calls[2].ok
    /\ Len(otherCalls) = 2
    /\ otherNb = NoRes
    /\ otherCalls[1].ok
    /\ otherCalls[2].op = "create"
    /\ otherCalls[2].ok
    /\ Cardinality(Matching(remote, params.name)) = 2

====
